---------------------------- MODULE Spec2Model ----------------------------
(* Student Portal (src/app.py): a SQLite table students(id, name, email)   *)
(* behind five repository functions and a Streamlit page that calls them.  *)
(* Text is a sequence of one-character strings, so that strip, LIKE and    *)
(* the CSV writer work on characters as the code's libraries do.           *)
EXTENDS Integers, Sequences, FiniteSets, TLC

\* fileExists  os.path.exists(DB_PATH)
\* conn        "none" before get_conn() has run, "open" after
\* students    the rows of the table: id -> [name, email]
\* seq         the AUTOINCREMENT high-water mark (sqlite_sequence)
\* pc, form    per session: where its Dashboard run stands, and the row
\*             (sid, sname, semail) its edit form was built from
\* issued      history: every id an INSERT has assigned so far
\* lastOp, call, outcome, ret
\*             history: the last operation, the id it was given and the
\*             row count it found, "ok" or "warning", and what it returned
VARIABLES fileExists, conn, students, seq, issued, pc, form, lastOp, call, outcome, ret

vars == <<fileExists, conn, students, seq, issued, pc, form, lastOp, call, outcome, ret>>

\* The most rows the model ever inserts (AUTOINCREMENT itself is unbounded).
MaxId == 3

-----------------------------------------------------------------------------
(* Text helpers: Python str and SQLite LIKE.                               *)

Upper == <<"A","B","C","D","E","F","G","H","I","J","K","L","M",
           "N","O","P","Q","R","S","T","U","V","W","X","Y","Z">>
Lower == <<"a","b","c","d","e","f","g","h","i","j","k","l","m",
           "n","o","p","q","r","s","t","u","v","w","x","y","z">>

\* Characters str.strip() removes when called without arguments.
IsSpace(c) == c \in {" ", "\t", "\n", "\r"}

RECURSIVE lstrip(_)
lstrip(s) == IF s = <<>> THEN s
             ELSE IF IsSpace(Head(s)) THEN lstrip(Tail(s)) ELSE s

RECURSIVE rstrip(_)
rstrip(s) == IF s = <<>> THEN s
             ELSE IF IsSpace(s[Len(s)]) THEN rstrip(SubSeq(s, 1, Len(s) - 1)) ELSE s

\* Variant: str.lstrip() in place of str.strip()
strip_left(s) == lstrip(s)

\* str.strip()
strip(s) == rstrip(lstrip(s))

\* SQLite folds the 26 ASCII upper-case letters when LIKE compares characters.
Fold(c) == IF \E i \in 1..26 : Upper[i] = c
           THEN Lower[CHOOSE i \in 1..26 : Upper[i] = c]
           ELSE c

\* SQLite's LIKE: % matches any run of characters, _ any one character,
\* every other pattern character matches itself up to ASCII case.
RECURSIVE Like(_, _)
Like(p, s) ==
    IF p = <<>> THEN s = <<>>
    ELSE IF Head(p) = "%" THEN Like(Tail(p), s) \/ (s # <<>> /\ Like(p, Tail(s)))
    ELSE IF s = <<>> THEN FALSE
    ELSE IF Head(p) = "_" THEN Like(Tail(p), Tail(s))
    ELSE Fold(Head(p)) = Fold(Head(s)) /\ Like(Tail(p), Tail(s))

-----------------------------------------------------------------------------
(* The table. students maps each id present to its name and email; seq is  *)
(* the AUTOINCREMENT high-water mark SQLite keeps in sqlite_sequence.      *)

SeedName  == <<"A","l","i","c","e"," ","E","x","a","m","p","l","e">>
SeedEmail == <<"a","l","i","c","e","@","e","x","a","m","p","l","e",".","c","o","m">>

NoRows == [i \in {} |-> [name |-> <<>>, email |-> <<>>]]

Ids(t) == DOMAIN t

MaxOf(S) == IF S = {} THEN 0 ELSE CHOOSE m \in S : \A x \in S : x <= m

\* Variant: INTEGER PRIMARY KEY without AUTOINCREMENT, which hands out one
\* more than the largest rowid now in the table.
NextIdReuse(t, sq) == MaxOf(Ids(t)) + 1

\* INTEGER PRIMARY KEY AUTOINCREMENT: one more than the largest rowid the
\* table has ever held.
NextId(t, sq) == MaxOf(Ids(t) \cup {sq}) + 1

\* INSERT INTO students (name, email) VALUES (?, ?)
SqlInsert(t, sq, name, email) ==
    [i \in Ids(t) \cup {NextId(t, sq)} |->
        IF i \in Ids(t) THEN t[i] ELSE [name |-> name, email |-> email]]

\* Variant: the UPDATE without its WHERE clause
SqlUpdateAll(t, id, name, email) ==
    [i \in Ids(t) |-> [name |-> name, email |-> email]]

\* UPDATE students SET name = ?, email = ? WHERE id = ?
SqlUpdate(t, id, name, email) ==
    [i \in Ids(t) |-> IF i = id THEN [name |-> name, email |-> email] ELSE t[i]]

\* DELETE FROM students WHERE id = ?
SqlDelete(t, id) == [i \in Ids(t) \ {id} |-> t[i]]

\* ORDER BY id DESC over a set of ids
RECURSIVE Desc(_)
Desc(S) == IF S = {} THEN <<>> ELSE <<MaxOf(S)>> \o Desc(S \ {MaxOf(S)})

Row(t, i) == <<i, t[i].name, t[i].email>>

\* SELECT id, name, email ... ORDER BY id DESC over the ids in S
SelectDesc(t, S) == LET d == Desc(S) IN [k \in 1..Len(d) |-> Row(t, d[k])]

\* LIMIT ?  (a negative limit is no limit in SQLite)
SqlLimit(rows, limit) ==
    IF limit < 0 \/ limit >= Len(rows) THEN rows ELSE SubSeq(rows, 1, limit)

\* fetch_students(limit, search)
fetch_students(t, limit, search) ==
    LET like == <<"%">> \o search \o <<"%">>
        hit  == IF search # <<>>
                THEN {i \in Ids(t) : Like(like, t[i].name) \/ Like(like, t[i].email)}
                ELSE Ids(t)
    IN  SqlLimit(SelectDesc(t, hit), limit)


-----------------------------------------------------------------------------
(* export_csv_bytes: csv.writer in its default (excel) dialect, then UTF-8. *)

Digits == <<"0","1","2","3","4","5","6","7","8","9">>

\* str(n) for n >= 0: what csv.writer writes for an integer field
RECURSIVE Str(_)
Str(n) == IF n < 10 THEN <<Digits[n + 1]>>
          ELSE Str(n \div 10) \o <<Digits[(n % 10) + 1]>>

\* QUOTE_MINIMAL: a field is quoted when it holds the delimiter, the quote
\* character or a character of the line terminator "\r\n".
NeedsQuote(f) == \E k \in 1..Len(f) : f[k] \in {",", "\"", "\r", "\n"}

\* doublequote=True: each quote character inside a quoted field is doubled
RECURSIVE DoubleQuotes(_)
DoubleQuotes(f) ==
    IF f = <<>> THEN <<>>
    ELSE (IF Head(f) = "\"" THEN <<"\"", "\"">> ELSE <<Head(f)>>)
         \o DoubleQuotes(Tail(f))

\* Variant: QUOTE_NONE without an escape character
WriteFieldRaw(f) == f

WriteField(f) == IF NeedsQuote(f) THEN <<"\"">> \o DoubleQuotes(f) \o <<"\"">>
                 ELSE f

\* writer.writerow(fields): fields joined by "," and ended by "\r\n"
RECURSIVE JoinFields(_)
JoinFields(fs) ==
    IF Len(fs) = 1 THEN WriteField(fs[1])
    ELSE WriteField(Head(fs)) \o <<",">> \o JoinFields(Tail(fs))

writerow(fs) == JoinFields(fs) \o <<"\r", "\n">>

\* writer.writerows(rows) for rows of (id, name, email)
RECURSIVE writerows(_)
writerows(rows) ==
    IF rows = <<>> THEN <<>>
    ELSE writerow(<<Str(Head(rows)[1]), Head(rows)[2], Head(rows)[3]>>)
         \o writerows(Tail(rows))

CsvHeader == <<<<"i","d">>, <<"n","a","m","e">>, <<"e","m","a","i","l">>>>

\* ASCII 32..95 and 97..126 in code order (96, the backquote, is left out).
PrintableLow  == <<" ","!","\"","#","$","%","&","'","(",")","*","+",
                   ",","-",".","/","0","1","2","3","4","5","6","7",
                   "8","9",":",";","<","=",">","?","@","A","B","C",
                   "D","E","F","G","H","I","J","K","L","M","N","O",
                   "P","Q","R","S","T","U","V","W","X","Y","Z","[",
                   "\\","]","^","_">>
PrintableHigh == <<"a","b","c","d","e","f","g","h","i","j","k","l","m",
                   "n","o","p","q","r","s","t","u","v","w","x","y","z",
                   "{","|","}","~">>

\* The code point of an ASCII character, which is its one UTF-8 byte.
Ord(c) == CASE c = "\t" -> 9
            [] c = "\n" -> 10
            [] c = "\r" -> 13
            [] \E k \in 1..Len(PrintableLow) : PrintableLow[k] = c ->
                 31 + (CHOOSE k \in 1..Len(PrintableLow) : PrintableLow[k] = c)
            [] OTHER ->
                 96 + (CHOOSE k \in 1..Len(PrintableHigh) : PrintableHigh[k] = c)

\* str.encode("utf-8"), for text within ASCII
encode(text) == [k \in 1..Len(text) |-> Ord(text[k])]

\* export_csv_bytes()
export_csv_bytes(t) ==
    encode(writerow(CsvHeader) \o writerows(SelectDesc(t, Ids(t))))

-----------------------------------------------------------------------------
(* The repository functions and the storage initializer.                    *)

\* Variant: CREATE TABLE IF NOT EXISTS and the seed INSERT on every call
init_db_always(fe, t, sq) ==
    [fileExists |-> TRUE,
     students   |-> SqlInsert(t, sq, SeedName, SeedEmail),
     seq        |-> NextId(t, sq)]

\* init_db(): acts only when the database file is missing
init_db(fe, t, sq) ==
    IF ~fe
    THEN [fileExists |-> TRUE,
          students   |-> SqlInsert(NoRows, 0, SeedName, SeedEmail),
          seq        |-> NextId(NoRows, 0)]
    ELSE [fileExists |-> fe, students |-> t, seq |-> sq]

\* Variant: an insert that returns early, without a row, on a missing field
add_student_checked(t, sq, name, email) ==
    IF strip(name) = <<>> \/ strip(email) = <<>>
    THEN [students |-> t, seq |-> sq, id |-> 0]
    ELSE [students |-> SqlInsert(t, sq, strip(name), strip(email)),
          seq      |-> NextId(t, sq),
          id       |-> NextId(t, sq)]

\* add_student(name, email): returns cur.lastrowid
add_student(t, sq, name, email) ==
    [students |-> SqlInsert(t, sq, strip(name), strip(email)),
     seq      |-> NextId(t, sq),
     id       |-> NextId(t, sq)]

\* Variant: INSERT OR REPLACE in place of UPDATE
update_student_upsert(t, id, name, email) ==
    [i \in Ids(t) \cup {id} |->
        IF i = id THEN [name |-> strip(name), email |-> strip(email)] ELSE t[i]]

\* update_student(student_id, name, email)
update_student(t, id, name, email) == SqlUpdate(t, id, strip(name), strip(email))

\* Variant: DELETE ... WHERE id >= ?
delete_student_from(t, id) == [i \in {j \in Ids(t) : j < id} |-> t[i]]

\* delete_student(student_id)
delete_student(t, id) == SqlDelete(t, id)

\* Variant: "not name", without the strip
MissingUnstripped(s) == s = <<>>

\* "not name.strip()": the page's test for a missing field
Missing(s) == strip(s) = <<>>

-----------------------------------------------------------------------------
(* Inputs.                                                                  *)

EmptyText   == <<>>
BlankText   == <<" ", "\t">>
PaddedBob   == <<" ","B","o","b"," ">>
Bob         == <<"B","o","b">>
QuotedName  == <<"\"","x","\"",",","\n","y">>
PaddedEmail == <<"b","o","b","@","x",".","c","o","m","\n">>
BobEmail    == <<"b","o","b","@","x",".","c","o","m">>

\* Arguments of direct calls of the repository functions
Names  == {BlankText, PaddedBob, QuotedName}
Emails == {EmptyText, PaddedEmail}
CallIds == 1..MaxId \cup {99999}
Limits == {0, 1, 2, 500}
Searches == {EmptyText,
             <<"a","l","i","c","e">>,
             <<"B","O","B">>,
             <<"%">>,
             <<"_">>}

\* What a user types into the page's text fields
TypedNames  == {EmptyText, BlankText, PaddedBob}
TypedEmails == {EmptyText, BlankText, PaddedEmail}
\* st.slider("Max rows to show", 10, 500, 200, step=10)
SliderMin == 10
SliderMax == 500
SliderValues == {SliderMin, SliderMax}
TypedSearches == {EmptyText, <<"B","O","B">>}

\* Browser sessions: each runs the script in its own thread over the one
\* shared connection.
Sessions == {"s1", "s2"}

NoForm == <<>>
Idle == [s \in Sessions |-> "idle"]
NoForms == [s \in Sessions |-> NoForm]

-----------------------------------------------------------------------------
(* State machine.                                                           *)

\* Observation of the last call, for stating properties: the id it was
\* given (or assigned; 0 when it has none) and the row count it found.
Called(id) == [id |-> id, rows |-> Cardinality(Ids(students))]

Init ==
    /\ fileExists = FALSE
    /\ conn = "none"
    /\ students = NoRows
    /\ seq = 0
    /\ issued = {}
    /\ pc = Idle
    /\ form = NoForms
    /\ lastOp = "none"
    /\ call = Called(0)
    /\ outcome = "ok"
    /\ ret = <<>>

\* The process is launched (or relaunched): lines 89-90, init_db() and
\* get_conn(). Sessions of an earlier process are gone.
Startup ==
    LET db == init_db(fileExists, students, seq) IN
    /\ fileExists' = db.fileExists
    /\ students' = db.students
    /\ seq' = db.seq
    /\ issued' = issued \cup (Ids(db.students) \ Ids(students))
    /\ conn' = "open"
    /\ pc' = Idle
    /\ form' = NoForms
    /\ lastOp' = "Startup"
    /\ call' = Called(0)
    /\ outcome' = "ok"
    /\ ret' = <<>>

\* add_student(name, email) called directly
Insert(name, email) ==
    LET a == add_student(students, seq, name, email) IN
    /\ conn = "open"
    /\ a.id <= MaxId
    /\ students' = a.students
    /\ seq' = a.seq
    /\ issued' = issued \cup {a.id}
    /\ lastOp' = "Insert"
    /\ call' = Called(a.id)
    /\ outcome' = "ok"
    /\ ret' = <<a.id>>
    /\ UNCHANGED <<fileExists, conn, pc, form>>

\* update_student(id, name, email) called directly
Update(id, name, email) ==
    /\ conn = "open"
    /\ students' = update_student(students, id, name, email)
    /\ lastOp' = "Update"
    /\ call' = Called(id)
    /\ outcome' = "ok"
    /\ ret' = <<>>
    /\ UNCHANGED <<fileExists, conn, seq, issued, pc, form>>

\* delete_student(id) called directly
Delete(id) ==
    /\ conn = "open"
    /\ students' = delete_student(students, id)
    /\ lastOp' = "Delete"
    /\ call' = Called(id)
    /\ outcome' = "ok"
    /\ ret' = <<>>
    /\ UNCHANGED <<fileExists, conn, seq, issued, pc, form>>

\* fetch_students(limit, search) called directly
List(limit, search) ==
    /\ conn = "open"
    /\ lastOp' = "List"
    /\ call' = Called(0)
    /\ outcome' = "ok"
    /\ ret' = fetch_students(students, limit, search)
    /\ UNCHANGED <<fileExists, conn, students, seq, issued, pc, form>>

\* export_csv_bytes() called directly
ExportCsv ==
    /\ conn = "open"
    /\ lastOp' = "ExportCsv"
    /\ call' = Called(0)
    /\ outcome' = "ok"
    /\ ret' = export_csv_bytes(students)
    /\ UNCHANGED <<fileExists, conn, students, seq, issued, pc, form>>

Next ==
    \/ Startup
    \/ \E n \in Names, e \in Emails : Insert(n, e)
    \/ \E i \in CallIds, n \in Names, e \in Emails : Update(i, n, e)
    \/ \E i \in CallIds : Delete(i)
    \/ \E l \in Limits, q \in Searches : List(l, q)
    \/ ExportCsv

\* Direct calls of the repository functions
Spec == Init /\ [][Next]_vars

-----------------------------------------------------------------------------
(* The page. Every interaction reruns the script from the top: init_db(),   *)
(* get_conn(), then the view the menu selects. A Dashboard run is two       *)
(* steps, its fetch (line 104) and its form handler (lines 133-144), since  *)
(* another session's run on the shared connection can fall between them.    *)

\* "Add Student": the form is submitted with these field values
AddStudentSubmit(name, email) ==
    LET db == init_db(fileExists, students, seq)
        a  == add_student(db.students, db.seq, name, email)
    IN
    /\ conn = "open"
    /\ fileExists' = db.fileExists
    /\ IF ~Missing(name) /\ ~Missing(email)
       THEN /\ a.id <= MaxId
            /\ students' = a.students
            /\ seq' = a.seq
            /\ issued' = issued \cup {a.id}
            /\ outcome' = "ok"
            /\ ret' = <<a.id>>
       ELSE /\ students' = db.students
            /\ seq' = db.seq
            /\ issued' = issued
            /\ outcome' = "warning"
            /\ ret' = <<>>
    /\ lastOp' = "AddStudent"
    /\ call' = Called(IF ~Missing(name) /\ ~Missing(email) THEN a.id ELSE 0)
    /\ UNCHANGED <<conn, pc, form>>

\* "Dashboard", lines 99-131: fetch the rows, show the table and, when the
\* selectbox holds the id of a fetched row, the edit form for that row.
DashFetch(s, limit, search, selected) ==
    LET db   == init_db(fileExists, students, seq)
        rows == fetch_students(db.students, limit, search)
        hits == {k \in 1..Len(rows) : rows[k][1] = selected}
    IN
    /\ conn = "open"
    /\ pc[s] = "idle"
    /\ fileExists' = db.fileExists
    /\ students' = db.students
    /\ seq' = db.seq
    /\ IF hits # {}
       THEN /\ form' = [form EXCEPT ![s] = rows[CHOOSE k \in hits : TRUE]]
            /\ pc' = [pc EXCEPT ![s] = "form"]
       ELSE /\ form' = [form EXCEPT ![s] = NoForm]
            /\ pc' = pc
    /\ lastOp' = "DashFetch"
    /\ call' = Called(selected)
    /\ outcome' = "ok"
    /\ ret' = rows
    /\ UNCHANGED <<conn, issued>>

\* "Dashboard", lines 133-139: Update is pressed in the edit form
DashUpdate(s, new_name, new_email) ==
    /\ conn = "open"
    /\ pc[s] = "form"
    /\ IF ~Missing(new_name) /\ ~Missing(new_email)
       THEN /\ students' = update_student(students, form[s][1], new_name, new_email)
            /\ outcome' = "ok"
       ELSE /\ students' = students
            /\ outcome' = "warning"
    /\ pc' = [pc EXCEPT ![s] = "idle"]
    /\ form' = [form EXCEPT ![s] = NoForm]
    /\ lastOp' = "DashUpdate"
    /\ call' = Called(form[s][1])
    /\ ret' = <<>>
    /\ UNCHANGED <<fileExists, conn, seq, issued>>

\* "Dashboard", lines 141-144: Delete is pressed in the edit form
DashDelete(s) ==
    /\ conn = "open"
    /\ pc[s] = "form"
    /\ students' = delete_student(students, form[s][1])
    /\ outcome' = "ok"
    /\ pc' = [pc EXCEPT ![s] = "idle"]
    /\ form' = [form EXCEPT ![s] = NoForm]
    /\ lastOp' = "DashDelete"
    /\ call' = Called(form[s][1])
    /\ ret' = <<>>
    /\ UNCHANGED <<fileExists, conn, seq, issued>>

\* "Dashboard": the run ends with neither button pressed
DashNoSubmit(s) ==
    /\ conn = "open"
    /\ pc[s] = "form"
    /\ pc' = [pc EXCEPT ![s] = "idle"]
    /\ form' = [form EXCEPT ![s] = NoForm]
    /\ lastOp' = "DashNoSubmit"
    /\ call' = Called(form[s][1])
    /\ outcome' = "ok"
    /\ ret' = <<>>
    /\ UNCHANGED <<fileExists, conn, students, seq, issued>>

\* "Export / Backup", lines 160-186: the CSV offered for download
ExportView ==
    LET db == init_db(fileExists, students, seq) IN
    /\ conn = "open"
    /\ fileExists' = db.fileExists
    /\ students' = db.students
    /\ seq' = db.seq
    /\ lastOp' = "ExportView"
    /\ call' = Called(0)
    /\ outcome' = "ok"
    /\ ret' = export_csv_bytes(db.students)
    /\ UNCHANGED <<conn, issued, pc, form>>

\* What the edit form's fields can hold: typed text, or the fetched value
\* left as it was.
FormNames(s)  == TypedNames \cup (IF form[s] = NoForm THEN {} ELSE {form[s][2]})
FormEmails(s) == TypedEmails \cup (IF form[s] = NoForm THEN {} ELSE {form[s][3]})

NextUI ==
    \/ Startup
    \/ \E n \in TypedNames, e \in TypedEmails : AddStudentSubmit(n, e)
    \/ \E s \in Sessions, l \in SliderValues, q \in TypedSearches,
          i \in 0..MaxId : DashFetch(s, l, q, i)
    \/ \E s \in Sessions : \E n \in FormNames(s), e \in FormEmails(s) :
          DashUpdate(s, n, e)
    \/ \E s \in Sessions : DashDelete(s)
    \/ \E s \in Sessions : DashNoSubmit(s)
    \/ ExportView

\* The page: every call of a repository function comes from a handler
UISpec == Init /\ [][NextUI]_vars

-----------------------------------------------------------------------------
(* Vocabulary of the properties, defined apart from the operators above.    *)

Whitespace == {" ", "\t", "\n", "\r"}

\* s is empty or holds whitespace only
WhitespaceOnly(s) == \A k \in 1..Len(s) : s[k] \in Whitespace

\* t is s without its leading and trailing whitespace
IsTrimOf(t, s) ==
    /\ \E i \in 1..(Len(s) + 1), j \in 0..Len(s) :
          /\ t = SubSeq(s, i, j)
          /\ \A k \in 1..(i - 1) : s[k] \in Whitespace
          /\ \A k \in (j + 1)..Len(s) : s[k] \in Whitespace
    /\ t # <<>> => t[1] \notin Whitespace /\ t[Len(t)] \notin Whitespace

Count(t) == Cardinality(Ids(t))

\* rows is in strictly descending order of id
StrictlyDescending(rows) ==
    \A k \in 1..(Len(rows) - 1) : rows[k][1] > rows[k + 1][1]

RowSet(rows) == {rows[k] : k \in 1..Len(rows)}

-----------------------------------------------------------------------------
(* Reading a CSV export back: bytes.decode("utf-8") and csv.reader in the   *)
(* same default dialect the writer uses, over the lines of the text.        *)

\* The ASCII character of a byte
Chr(b) == CASE b = 9 -> "\t"
            [] b = 10 -> "\n"
            [] b = 13 -> "\r"
            [] b >= 32 /\ b <= 95 -> PrintableLow[b - 31]
            [] OTHER -> PrintableHigh[b - 96]

decode(bytes) == [k \in 1..Len(bytes) |-> Chr(bytes[k])]

ReaderStart == [mode |-> "START_RECORD", field |-> <<>>, fields |-> <<>>, recs |-> <<>>]

SaveField(st, mode) ==
    [st EXCEPT !.fields = Append(@, st.field), !.field = <<>>, !.mode = mode]

AddChar(st, c, mode) == [st EXCEPT !.field = Append(@, c), !.mode = mode]

\* One character through the reader's state machine
ReadChar(st, c) ==
    LET nl == c \in {"\n", "\r"} IN
    CASE st.mode = "START_RECORD" /\ nl -> [st EXCEPT !.mode = "EAT_CRNL"]
      [] st.mode \in {"START_RECORD", "START_FIELD"} /\ ~nl ->
           IF c = "\"" THEN [st EXCEPT !.mode = "IN_QUOTED_FIELD"]
           ELSE IF c = "," THEN SaveField(st, "START_FIELD")
           ELSE AddChar(st, c, "IN_FIELD")
      [] st.mode = "START_FIELD" /\ nl -> SaveField(st, "EAT_CRNL")
      [] st.mode = "IN_FIELD" ->
           IF nl THEN SaveField(st, "EAT_CRNL")
           ELSE IF c = "," THEN SaveField(st, "START_FIELD")
           ELSE AddChar(st, c, "IN_FIELD")
      [] st.mode = "IN_QUOTED_FIELD" ->
           IF c = "\"" THEN [st EXCEPT !.mode = "QUOTE_IN_QUOTED_FIELD"]
           ELSE AddChar(st, c, "IN_QUOTED_FIELD")
      [] st.mode = "QUOTE_IN_QUOTED_FIELD" ->
           IF c = "\"" THEN AddChar(st, c, "IN_QUOTED_FIELD")
           ELSE IF c = "," THEN SaveField(st, "START_FIELD")
           ELSE IF nl THEN SaveField(st, "EAT_CRNL")
           ELSE AddChar(st, c, "IN_FIELD")
      [] st.mode = "EAT_CRNL" ->
           IF nl THEN st ELSE [st EXCEPT !.mode = "ERROR"]
      [] OTHER -> st

\* The end of a line of input: a record is complete unless a quoted field
\* is still open.
ReadEndOfLine(st) ==
    LET st1 == CASE st.mode \in {"START_FIELD", "IN_FIELD", "QUOTE_IN_QUOTED_FIELD"} ->
                      SaveField(st, "START_RECORD")
                 [] st.mode = "EAT_CRNL" -> [st EXCEPT !.mode = "START_RECORD"]
                 [] OTHER -> st
    IN  IF st1.mode = "START_RECORD"
        THEN [st1 EXCEPT !.recs = Append(@, st1.fields), !.fields = <<>>]
        ELSE st1

\* A character and, after a line feed, the end of its line
ReadStep(st, c) ==
    LET st1 == ReadChar(st, c) IN
    IF c = "\n" THEN ReadEndOfLine(st1) ELSE st1

\* The characters text[lo..hi] in order, the range halved at each level;
\* the reader stops at its first error.
RECURSIVE ReadRange(_, _, _, _)
ReadRange(text, lo, hi, st) ==
    IF lo > hi THEN st
    ELSE IF lo = hi THEN ReadStep(st, text[lo])
    ELSE LET mid  == (lo + hi) \div 2
             left == ReadRange(text, lo, mid, st)
         IN  IF left.mode = "ERROR" THEN left
             ELSE ReadRange(text, mid + 1, hi, left)

\* list(csv.reader(text)): the records, each a sequence of text fields. A
\* last line without a line feed ends at the end of the text.
reader(text) ==
    LET st == ReadRange(text, 1, Len(text), ReaderStart) IN
    IF Len(text) > 0 /\ text[Len(text)] # "\n" THEN ReadEndOfLine(st).recs
    ELSE st.recs

\* int(digits)
RECURSIVE Int10(_)
Int10(d) ==
    IF d = <<>> THEN 0
    ELSE 10 * Int10(SubSeq(d, 1, Len(d) - 1))
         + ((CHOOSE k \in 1..10 : Digits[k] = d[Len(d)]) - 1)

IsNumber(d) == d # <<>> /\ \A k \in 1..Len(d) : \E j \in 1..10 : Digits[j] = d[k]

-----------------------------------------------------------------------------
(* Properties of the repository functions, checked under Spec.              *)

\* C1: Insert(name, email) with non-empty fields returns an id strictly
\* greater than every id any earlier insert assigned (the seed row's and
\* those of rows deleted since included), and a list with an empty search
\* term made right after it holds a row with that id and the trimmed name
\* and email.
C1_InsertReturnsFreshIdAndIsListed ==
    [][\A n \in Names, e \in Emails :
          (lastOp' = "Insert" /\ n # <<>> /\ e # <<>> /\ Insert(n, e)) =>
              /\ \A i \in issued : ret'[1] > i
              /\ \A l \in Limits \ {0} :
                    LET rows == fetch_students(students', l, <<>>) IN
                    \E k \in 1..Len(rows) :
                        /\ rows[k][1] = ret'[1]
                        /\ IsTrimOf(rows[k][2], n)
                        /\ IsTrimOf(rows[k][3], e)]_vars

\* C1 witness: an insert has just returned an id whose predecessor was
\* assigned earlier and deleted since, and stored a name it had to trim.
C1_Witness ==
    /\ lastOp = "Insert"
    /\ (ret[1] - 1) \in issued \ Ids(students)
    /\ students[ret[1]].name = Bob

\* C2: Delete(id) on an id in the table removes exactly that row (the count
\* goes down by one, every other row is unchanged); on an id not in the
\* table it changes nothing; it raises no error either way.
C2_DeleteRemovesExactlyThatRow ==
    [][\A i \in CallIds :
          (lastOp' = "Delete" /\ call'.id = i /\ Delete(i)) =>
              /\ outcome' = "ok"
              /\ IF i \in Ids(students)
                 THEN /\ Ids(students') = Ids(students) \ {i}
                      /\ Count(students') = Count(students) - 1
                      /\ \A j \in Ids(students') : students'[j] = students[j]
                 ELSE students' = students]_vars

\* C2 witness: a Delete has just removed one row of several, and rows with
\* a smaller and with a larger id are still there.
C2_Witness ==
    /\ lastOp = "Delete"
    /\ call.id \in issued \ Ids(students)
    /\ Count(students) = call.rows - 1
    /\ \E j \in Ids(students) : j < call.id
    /\ \E j \in Ids(students) : j > call.id

\* C3: Update(id, name, email) with an id that is not in the table (one
\* never assigned, or one deleted earlier) leaves every row and the row
\* count unchanged, creates no row and raises no error.
C3_UpdateOfAbsentIdChangesNothing ==
    [][\A i \in CallIds, n \in Names, e \in Emails :
          (/\ lastOp' = "Update" /\ call'.id = i
           /\ i \notin Ids(students)
           /\ Update(i, n, e)) =>
              /\ outcome' = "ok"
              /\ Ids(students') = Ids(students)
              /\ Count(students') = Count(students)
              /\ students' = students]_vars

\* C3 witness: an Update has just been called with the id of a row deleted
\* earlier, while other rows exist.
C3_Witness ==
    /\ lastOp = "Update"
    /\ call.id \in issued \ Ids(students)
    /\ Count(students) >= 1

\* C5 as claimed: Insert(name, email) called with a name or email that is
\* empty or whitespace-only adds no row to the table and raises no error.
C5_BlankInsertAddsNoRow ==
    [][\A n \in Names, e \in Emails :
          (/\ lastOp' = "Insert"
           /\ WhitespaceOnly(n) \/ WhitespaceOnly(e)
           /\ Insert(n, e)) =>
              /\ outcome' = "ok"
              /\ students' = students]_vars

\* C5 as amended: Insert(name, email) called with a name or email that is
\* empty or whitespace-only raises no error and checks nothing: it adds
\* exactly one row, under a new id, holding the trimmed fields (the blank
\* one as the empty text), and leaves every other row as it was.
C5_BlankInsertAddsBlankRow ==
    [][\A n \in Names, e \in Emails :
          (/\ lastOp' = "Insert"
           /\ WhitespaceOnly(n) \/ WhitespaceOnly(e)
           /\ Insert(n, e)) =>
              /\ outcome' = "ok"
              /\ ret'[1] \notin Ids(students)
              /\ Ids(students') = Ids(students) \cup {ret'[1]}
              /\ Count(students') = Count(students) + 1
              /\ IsTrimOf(students'[ret'[1]].name, n)
              /\ IsTrimOf(students'[ret'[1]].email, e)
              /\ WhitespaceOnly(n) => students'[ret'[1]].name = <<>>
              /\ WhitespaceOnly(e) => students'[ret'[1]].email = <<>>
              /\ \A j \in Ids(students) : students'[j] = students[j]]_vars

\* C5 witness: an insert has just stored a row whose name is the empty
\* text beside a non-empty email.
C5_Witness ==
    /\ lastOp = "Insert"
    /\ ret[1] \in Ids(students)
    /\ students[ret[1]].name = <<>>
    /\ students[ret[1]].email = BobEmail

\* C6: ExportCsv() yields the header row id,name,email and then one data
\* row per student in descending id order, and the data rows read back
\* give exactly the (id, name, email) triples of a list with an empty
\* search term and no effective limit.
C6_CsvExportReadsBackAsTheList ==
    lastOp = "ExportCsv" =>
        LET recs == reader(decode(ret))
            data == SubSeq(recs, 2, Len(recs))
            back == [k \in 1..Len(data) |->
                        <<Int10(data[k][1]), data[k][2], data[k][3]>>]
        IN  /\ Len(recs) = 1 + Count(students)
            /\ recs[1] = CsvHeader
            /\ \A k \in 1..Len(data) : Len(data[k]) = 3 /\ IsNumber(data[k][1])
            /\ StrictlyDescending(back)
            /\ \A l \in {-1, 500} :
                  RowSet(back) = RowSet(fetch_students(students, l, <<>>))

\* C6 witness: an export of several rows, one of whose names holds a comma,
\* quote characters and a line break, and one of whose fields is empty.
C6_Witness ==
    /\ lastOp = "ExportCsv"
    /\ Count(students) >= 2
    /\ \E i \in Ids(students) : students[i].name = QuotedName
    /\ \E i \in Ids(students) : students[i].email = <<>>

\* s contains q at some position, letters compared without regard to case
ContainsNoCase(s, q) ==
    \E k \in 0..(Len(s) - Len(q)) :
        \A j \in 1..Len(q) : Fold(s[k + j]) = Fold(q[j])

\* The rows C7 describes: those whose name or email contains the search
\* term (all rows when it is empty), highest ids first, at most limit.
ClaimedList(t, limit, search) ==
    LET hit  == {i \in Ids(t) : \/ search = <<>>
                                \/ ContainsNoCase(t[i].name, search)
                                \/ ContainsNoCase(t[i].email, search)}
        rows == SelectDesc(t, hit)
        n    == IF limit < Len(rows) THEN limit ELSE Len(rows)
    IN  SubSeq(rows, 1, n)

\* C7 as claimed: List/Search(limit, searchTerm) returns, in strictly
\* descending id order, the min(limit, matches) matching rows with the
\* highest ids, a row matching when the search term is empty or when its
\* name or email contains the term as a substring (read here in the way
\* most favourable to the code, without regard to case).
C7_ListReturnsTheSubstringMatches ==
    [][\A l \in Limits, q \in Searches :
          (lastOp' = "List" /\ List(l, q)) =>
              /\ StrictlyDescending(ret')
              /\ ret' = ClaimedList(students, l, q)]_vars

\* C8: Update(id, name, email) on an id in the table sets that row's name
\* and email to the trimmed arguments and changes nothing else: the ids in
\* the table and the row count stay, and every other row keeps its fields.
C8_UpdateChangesOnlyThatRow ==
    [][\A i \in CallIds, n \in Names, e \in Emails :
          (/\ lastOp' = "Update" /\ call'.id = i
           /\ i \in Ids(students)
           /\ Update(i, n, e)) =>
              /\ outcome' = "ok"
              /\ Ids(students') = Ids(students)
              /\ Count(students') = Count(students)
              /\ seq' = seq
              /\ IsTrimOf(students'[i].name, n)
              /\ IsTrimOf(students'[i].email, e)
              /\ \A j \in Ids(students) \ {i} : students'[j] = students[j]]_vars

\* C8 witness: an Update has just set one row of several to trimmed text
\* that no other row holds.
C8_Witness ==
    /\ lastOp = "Update"
    /\ call.id \in Ids(students)
    /\ students[call.id] = [name |-> Bob, email |-> BobEmail]
    /\ Count(students) >= 2
    /\ \A j \in Ids(students) \ {call.id} : students[j].name # Bob

-----------------------------------------------------------------------------
(* Properties of the page, checked under UISpec.                            *)

\* C4: submitting the Add Student form, or pressing Update in the edit
\* form, with a name or email that is empty or whitespace-only gives a
\* warning and neither inserts nor updates: the table and its row count
\* are afterwards what they were before.
C4_BlankFieldWarnsAndWritesNothing ==
    [][/\ \A n \in TypedNames, e \in TypedEmails :
             (/\ lastOp' = "AddStudent"
              /\ WhitespaceOnly(n) \/ WhitespaceOnly(e)
              /\ AddStudentSubmit(n, e)) =>
                 /\ outcome' = "warning"
                 /\ students' = students
                 /\ Count(students') = Count(students)
                 /\ seq' = seq
       /\ \A s \in Sessions : \A n \in FormNames(s), e \in FormEmails(s) :
             (/\ lastOp' = "DashUpdate"
              /\ WhitespaceOnly(n) \/ WhitespaceOnly(e)
              /\ DashUpdate(s, n, e)) =>
                 /\ outcome' = "warning"
                 /\ students' = students
                 /\ Count(students') = Count(students)
                 /\ seq' = seq]_vars

\* C4 witness: Update has just been pressed on a row of a table of several
\* rows and answered with the warning.
C4_Witness ==
    /\ lastOp = "DashUpdate"
    /\ outcome = "warning"
    /\ call.id \in Ids(students)
    /\ Count(students) >= 2

\* C9: the storage initializer inserts the seed row only on a startup that
\* finds no database file; a startup that finds the file leaves the table
\* as the previous run left it, so a seed row deleted or edited since is
\* not put back and no second seed row is added.
C9_StartupSeedsOnlyAMissingFile ==
    [][(lastOp' = "Startup" /\ Startup) =>
          IF fileExists
          THEN /\ students' = students
               /\ seq' = seq
               /\ fileExists'
          ELSE /\ Ids(students') = {1}
               /\ students'[1] = [name |-> SeedName, email |-> SeedEmail]
               /\ fileExists']_vars

\* C9 witness: the process has just been restarted over a database whose
\* seed row was deleted, and the table still has rows but no seed row.
C9_Witness ==
    /\ lastOp = "Startup"
    /\ fileExists
    /\ 1 \in issued \ Ids(students)
    /\ Count(students) >= 1
    /\ \A i \in Ids(students) : students[i].name # SeedName

\* C10: whatever is done through the page (Add Student, Update, Delete,
\* restart), every row of the table has a name and an email that are not
\* empty and neither begin nor end with whitespace.
C10_RowsAreNonEmptyAndTrimmed ==
    \A i \in Ids(students) :
        /\ students[i].name # <<>>
        /\ students[i].name[1] \notin Whitespace
        /\ students[i].name[Len(students[i].name)] \notin Whitespace
        /\ students[i].email # <<>>
        /\ students[i].email[1] \notin Whitespace
        /\ students[i].email[Len(students[i].email)] \notin Whitespace

\* C10 witness: Update has just stored, in the seed row, a name and an
\* email that were typed with whitespace around them.
C10_Witness ==
    /\ lastOp = "DashUpdate"
    /\ outcome = "ok"
    /\ call.id = 1
    /\ call.id \in Ids(students)
    /\ students[call.id] = [name |-> Bob, email |-> BobEmail]

\* Beside C3, under UISpec: Update pressed in a session whose fetched row
\* another session deleted in between changes nothing either.
StaleDashUpdateChangesNothing ==
    [][\A s \in Sessions : \A n \in FormNames(s), e \in FormEmails(s) :
          (/\ lastOp' = "DashUpdate"
           /\ pc[s] = "form"
           /\ form[s][1] \notin Ids(students)
           /\ DashUpdate(s, n, e)) => students' = students]_vars

\* Its case: such an Update, with valid fields, has just run.
StaleDashUpdateReached ==
    /\ lastOp = "DashUpdate"
    /\ outcome = "ok"
    /\ call.id \in issued \ Ids(students)

=============================================================================
